---- MODULE Spec2Model ----
(***************************************************************************)
(* Covid.py: a linear script of three guarded zones.                       *)
(*   Task 1 (lines 19-58)  download, parse, preview and clean the table    *)
(*   Task 2 (lines 61-86)  statistics over the rows on/after the cutoff    *)
(*   Task 3 (lines 89-150) four charts over the same window                *)
(*   lines 153-158         the closing observations                        *)
(* The state is the script's module-level names (df, recent_df, viz_df,    *)
(* group_means, country_deaths), what it has printed, the image files it   *)
(* has written and the position of control.  The inputs are the outcome of *)
(* the HTTP request, the CSV body and whether the installed pandas still   *)
(* accepts fillna(method=...).                                             *)
(***************************************************************************)
EXTENDS Integers, Sequences, FiniteSets, TLC

VARIABLES
    pc,              \* position of control: the statement about to run
    net,             \* input: outcome of the HTTP request (lines 22-23)
    body,            \* input: the CSV text of the response (line 24)
    methodOK,        \* input: the installed pandas accepts fillna(method='ffill')
    df,              \* the module-level name df (unbound until line 24 succeeds)
    dropped,         \* initial_len - len(df), as printed by line 47
    column,          \* the loop of line 43: index of the column in hand (0: not begun)
    recent_df,       \* Task 2's window (line 63)
    summary,         \* describe() of the four numeric columns (line 65)
    group_means,     \* line 69
    country_deaths,  \* line 74
    viz_df,          \* Task 3's window (line 91)
    files,           \* the image files written, in the order written
    out              \* what has been printed, in order

vars == <<pc, net, body, methodOK, df, dropped, column, recent_df, summary,
          group_means, country_deaths, viz_df, files, out>>

-----------------------------------------------------------------------------
(* Bounds of the model *)

\* explicit rows of a table that has every column
MaxRows == 3
\* explicit rows of a table that lacks one column
MaxShapeRows == 1

-----------------------------------------------------------------------------
(* Columns and cells *)

NumericCols == <<"Cumulative_cases", "Cumulative_deaths", "New_cases", "New_deaths">>

DescribeCols == <<"New_cases", "New_deaths", "Cumulative_cases", "Cumulative_deaths">>

KeyCols == {"Date_reported", "Country_code"}

TextCols == {"Country_code", "Country", "WHO_region"}

AllCols == {"Date_reported", "Country_code", "Country", "WHO_region",
            "New_cases", "Cumulative_cases", "New_deaths", "Cumulative_deaths"}

Range(s) == {s[i] : i \in DOMAIN s}

\* a missing numeric cell (NaN); a present one is <<v>>
NaN == <<>>

\* a missing text cell
Missing == "<NaN>"

\* a missing date cell (NaN before the conversion, NaT after it)
NaT == [kind |-> "nan", s |-> "", t |-> 0]

StrCell(s) == [kind |-> "str", s |-> s, t |-> 0]

TsCell(t) == [kind |-> "ts", s |-> "", t |-> t]

\* the name df before line 24 has bound it
Unbound == [bound |-> FALSE]

IsBound(d) == d.bound

-----------------------------------------------------------------------------
(* Strings as the code compares and parses them *)

\* the character codes of the strings that occur in date cells
Chars(s) ==
    CASE s = "2025-01-01" -> <<50, 48, 50, 53, 45, 48, 49, 45, 48, 49>>
      [] s = "2025-01-02" -> <<50, 48, 50, 53, 45, 48, 49, 45, 48, 50>>
      [] s = "2024-12-31" -> <<50, 48, 50, 52, 45, 49, 50, 45, 51, 49>>
      [] s = "unknown"    -> <<117, 110, 107, 110, 111, 119, 110>>
      [] OTHER            -> <<>>

IsDigit(c) == c >= 48 /\ c <= 57

Digit(c) == c - 48

\* a string of the form YYYY-MM-DD
IsIsoDate(cs) ==
    /\ Len(cs) = 10
    /\ cs[5] = 45 /\ cs[8] = 45
    /\ \A i \in {1, 2, 3, 4, 6, 7, 9, 10} : IsDigit(cs[i])

\* the day an ISO date names, as the number YYYYMMDD (which orders as days do)
DateNumber(cs) ==
    (Digit(cs[1]) * 1000 + Digit(cs[2]) * 100 + Digit(cs[3]) * 10 + Digit(cs[4])) * 10000
    + (Digit(cs[6]) * 10 + Digit(cs[7])) * 100
    + (Digit(cs[9]) * 10 + Digit(cs[10]))

\* Python's str >= str: lexicographic on the code points
RECURSIVE LexGE(_, _)
LexGE(a, b) ==
    IF b = <<>> THEN TRUE
    ELSE IF a = <<>> THEN FALSE
    ELSE IF a[1] > b[1] THEN TRUE
    ELSE IF a[1] < b[1] THEN FALSE
    ELSE LexGE(Tail(a), Tail(b))

\* the fixed cutoff of lines 63 and 91
Cutoff == "2025-01-01"

-----------------------------------------------------------------------------
(* The inputs: CSV bodies *)

\* The rows a body is drawn from.  Text cells are the field as written ("" is
\* an empty field); numeric cells are NaN for an empty field.
K1 == [Date_reported |-> "2025-01-01", Country_code |-> "KE", Country |-> "Kenya",
       WHO_region |-> "AFRO", New_cases |-> <<2>>, Cumulative_cases |-> <<5>>,
       New_deaths |-> <<1>>, Cumulative_deaths |-> <<3>>]

K2 == [Date_reported |-> "2025-01-02", Country_code |-> "FR", Country |-> "France",
       WHO_region |-> "EURO", New_cases |-> NaN, Cumulative_cases |-> NaN,
       New_deaths |-> NaN, Cumulative_deaths |-> NaN]

K3 == [Date_reported |-> "2025-01-02", Country_code |-> "XA", Country |-> "Other",
       WHO_region |-> "", New_cases |-> <<-1>>, Cumulative_cases |-> <<7>>,
       New_deaths |-> <<0>>, Cumulative_deaths |-> NaN]

K4 == [Date_reported |-> "2024-12-31", Country_code |-> "KE", Country |-> "Kenya",
       WHO_region |-> "AFRO", New_cases |-> <<4>>, Cumulative_cases |-> NaN,
       New_deaths |-> NaN, Cumulative_deaths |-> <<2>>]

K5 == [Date_reported |-> "", Country_code |-> "FR", Country |-> "France",
       WHO_region |-> "EURO", New_cases |-> <<9>>, Cumulative_cases |-> <<9>>,
       New_deaths |-> <<9>>, Cumulative_deaths |-> <<9>>]

K6 == [Date_reported |-> "2025-01-01", Country_code |-> "NA", Country |-> "Namibia",
       WHO_region |-> "AFRO", New_cases |-> <<8>>, Cumulative_cases |-> <<8>>,
       New_deaths |-> <<8>>, Cumulative_deaths |-> <<8>>]

K7 == [Date_reported |-> "unknown", Country_code |-> "KE", Country |-> "Kenya",
       WHO_region |-> "AFRO", New_cases |-> <<3>>, Cumulative_cases |-> <<6>>,
       New_deaths |-> <<1>>, Cumulative_deaths |-> <<4>>]

RowKinds == {K1, K2, K3, K4, K5, K6, K7}

\* the row a long table repeats after its explicit rows
BulkRow == K1

\* the size of the random sample of line 134
SampleSize == 1000

Tables(n) == UNION {[1..k -> RowKinds] : k \in 0..n}

\* a column the table does not have carries nothing
Blank(c) == IF c = "Date_reported" THEN "" ELSE IF c \in TextCols THEN "" ELSE NaN

Project(row, cols) == [c \in AllCols |-> IF c \in cols THEN row[c] ELSE Blank(c)]

ProjectRows(rows, cols) == [i \in DOMAIN rows |-> Project(rows[i], cols)]

\* a body with no text at all
EmptyBody == [empty |-> TRUE, cols |-> {}, rows |-> <<>>, bulk |-> 0]

Body(cols, rows, bulk) ==
    [empty |-> FALSE, cols |-> cols, rows |-> ProjectRows(rows, cols), bulk |-> bulk]

Bodies ==
    {EmptyBody}
    \cup {Body(AllCols, rows, bulk) : rows \in Tables(MaxRows), bulk \in {0, SampleSize}}
    \cup {Body(AllCols \ {c}, rows, bulk) :
             c \in AllCols, rows \in Tables(MaxShapeRows), bulk \in {0, SampleSize}}

-----------------------------------------------------------------------------
(* Exceptions and the handlers of the three try statements *)

\* the direct base class of each exception the script can meet
Base(e) ==
    CASE e = "ConnectionError"  -> "RequestException"
      [] e = "HTTPError"        -> "RequestException"
      [] e = "RequestException" -> "OSError"
      [] e = "OSError"          -> "Exception"
      [] e = "EmptyDataError"   -> "ValueError"
      [] e = "ValueError"       -> "Exception"
      [] e = "KeyError"         -> "LookupError"
      [] e = "LookupError"      -> "Exception"
      [] e = "TypeError"        -> "Exception"
      [] e = "NameError"        -> "Exception"
      [] e = "Exception"        -> "BaseException"
      [] OTHER                  -> "object"

RECURSIVE IsInstance(_, _)
IsInstance(e, cls) ==
    IF e = cls THEN TRUE
    ELSE IF e = "object" THEN FALSE
    ELSE IsInstance(Base(e), cls)

\* the except clauses of each try, in order, with the message each prints
Handlers1 == <<[cls |-> "RequestException", msg |-> "Error: Failed to download dataset"],
               [cls |-> "Exception", msg |-> "Error during data loading"]>>

\* a handler for missing columns only
Handlers2KeyError == <<[cls |-> "KeyError", msg |-> "Error during analysis"]>>

Handlers2 == <<[cls |-> "Exception", msg |-> "Error during analysis"]>>

\* a handler for missing columns only
Handlers3KeyError == <<[cls |-> "KeyError", msg |-> "Error during visualization"]>>

Handlers3 == <<[cls |-> "Exception", msg |-> "Error during visualization"]>>

\* the indices of the clauses that catch e
Catching(handlers, e) == {i \in DOMAIN handlers : IsInstance(e, handlers[i].cls)}

Caught(handlers, e) == Catching(handlers, e) # {}

FirstCatching(handlers, e) ==
    CHOOSE i \in Catching(handlers, e) : \A j \in Catching(handlers, e) : i <= j

\* e is raised inside a try with these handlers, after the statements of the
\* step that ran before the raising one have printed `printed`; control
\* resumes at `next`.  An exception no clause catches ends the script with a
\* traceback.
RaiseAfter(printed, handlers, e, next) ==
    IF Caught(handlers, e)
    THEN /\ out' = Append(out \o printed, handlers[FirstCatching(handlers, e)].msg)
         /\ pc' = next
    ELSE /\ out' = Append(out \o printed, "Traceback")
         /\ pc' = "crashed"

\* e is raised by the first statement of a step
Raise(handlers, e, next) == RaiseAfter(<<>>, handlers, e, next)

-----------------------------------------------------------------------------
(* Task 1: what pandas does to the table *)

\* the fields read_csv takes for a missing value
\* by default ("None" is one of them from pandas 2.0 on)
NaValues == {"", "#N/A", "#N/A N/A", "#NA", "-1.#IND", "-1.#QNAN", "-NaN", "-nan",
             "1.#IND", "1.#QNAN", "<NA>", "N/A", "NA", "NULL", "NaN", "None",
             "n/a", "nan", "null"}

ParseText(s) == IF s \in NaValues THEN Missing ELSE s

ParseDateField(s) == IF s \in NaValues THEN NaT ELSE StrCell(s)

ParseRow(r) ==
    [c \in AllCols |->
        IF c = "Date_reported" THEN ParseDateField(r[c])
        ELSE IF c \in TextCols THEN ParseText(r[c])
        ELSE r[c]]

\* pd.read_csv: the table, with its long tail kept as a count of one row
ReadCsv(b) ==
    [bound |-> TRUE,
     cols  |-> b.cols,
     rows  |-> [i \in DOMAIN b.rows |-> ParseRow(b.rows[i])],
     tail  |-> [n |-> b.bulk, row |-> ParseRow(Project(BulkRow, b.cols))]]

\* the rows of the table, the tail's row once if there is a tail
RowSet(d) == Range(d.rows) \cup (IF d.tail.n > 0 THEN {d.tail.row} ELSE {})

LenDf(d) == Len(d.rows) + d.tail.n

\* pd.to_datetime of one cell (errors='raise')
Parses(cell) == cell.kind # "str" \/ IsIsoDate(Chars(cell.s))

ToDatetime(cell) ==
    IF cell.kind = "str" THEN TsCell(DateNumber(Chars(cell.s))) ELSE cell

ConvertDates(d) ==
    [d EXCEPT !.rows = [i \in DOMAIN d.rows |->
                          [d.rows[i] EXCEPT !.Date_reported = ToDatetime(@)]],
              !.tail.row.Date_reported = ToDatetime(@)]

\* dropna(subset=['Date_reported'])
DropNaDateOnly(d) ==
    LET HasDate(r) == r.Date_reported.kind # "nan"
    IN  [d EXCEPT !.rows = SelectSeq(d.rows, HasDate),
                  !.tail.n = IF HasDate(d.tail.row) THEN @ ELSE 0]

\* dropna(subset=['Date_reported', 'Country_code'])
HasKeys(r) == r.Date_reported.kind # "nan" /\ r.Country_code # Missing

DropNa(d) ==
    [d EXCEPT !.rows = SelectSeq(d.rows, HasKeys),
              !.tail.n = IF HasKeys(d.tail.row) THEN @ ELSE 0]

\* the forward fill of the rest of a column, `last` being the last value seen
RECURSIVE FFillFrom(_, _)
FFillFrom(col, last) ==
    IF col = <<>> THEN <<>>
    ELSE IF Head(col) # NaN THEN <<Head(col)>> \o FFillFrom(Tail(col), Head(col))
    ELSE <<last>> \o FFillFrom(Tail(col), last)

\* a forward fill that takes no effect
NoFFill(col) == col

\* fillna(method='ffill') of one column, top to bottom
FFill(col) == FFillFrom(col, NaN)

\* fillna(-1)
FillMinusOne(col) == [i \in DOMAIN col |-> IF col[i] = NaN THEN <<-1>> ELSE col[i]]

\* fillna(0)
FillZero(col) == [i \in DOMAIN col |-> IF col[i] = NaN THEN <<0>> ELSE col[i]]

\* lines 45-46 for one column: the explicit rows, then the tail's row
FillColumn(d, c) ==
    LET n      == Len(d.rows)
        whole  == Append([i \in 1..n |-> d.rows[i][c]], d.tail.row[c])
        filled == FillZero(FFill(whole))
    IN  [d EXCEPT !.rows = [i \in 1..n |-> [d.rows[i] EXCEPT ![c] = filled[i]]],
                  !.tail.row[c] = IF d.tail.n > 0 THEN filled[n + 1] ELSE @]

\* df.isnull() of one row
RowHasNull(r, cols) ==
    \E c \in cols :
        IF c = "Date_reported" THEN r[c].kind = "nan"
        ELSE IF c \in TextCols THEN r[c] = Missing
        ELSE r[c] = NaN

\* df.isnull().any().any()
AnyNull(d) == \E r \in RowSet(d) : RowHasNull(r, d.cols)

-----------------------------------------------------------------------------
(* Task 1: the statements *)

env == <<net, body, methodOK>>

results == <<recent_df, summary, group_means, country_deaths, viz_df, files>>

\* line 22: requests.get
Get ==
    /\ pc = "t1_get"
    /\ IF net = "ConnectionError"
       THEN Raise(Handlers1, "ConnectionError", "t2_filter")
       ELSE pc' = "t1_status" /\ out' = out
    /\ UNCHANGED <<env, df, dropped, column, results>>

\* line 23: response.raise_for_status()
RaiseForStatus ==
    /\ pc = "t1_status"
    /\ IF net = "HTTPError"
       THEN Raise(Handlers1, "HTTPError", "t2_filter")
       ELSE pc' = "t1_read" /\ out' = out
    /\ UNCHANGED <<env, df, dropped, column, results>>

\* line 24: df = pd.read_csv(...)
Read ==
    /\ pc = "t1_read"
    /\ IF body.empty
       THEN Raise(Handlers1, "EmptyDataError", "t2_filter") /\ df' = df
       ELSE pc' = "t1_preview" /\ out' = out /\ df' = ReadCsv(body)
    /\ UNCHANGED <<env, dropped, column, results>>

\* lines 27-36: head, info and the count of missing values
Preview ==
    /\ pc = "t1_preview"
    /\ out' = out \o <<"First 5 Rows", "Dataset Info", "Missing Values">>
    /\ pc' = "t1_dates"
    /\ UNCHANGED <<env, df, dropped, column, results>>

\* line 40: df['Date_reported'] = pd.to_datetime(df['Date_reported'])
ToDatetimeStep ==
    /\ pc = "t1_dates"
    /\ IF "Date_reported" \notin df.cols
       THEN Raise(Handlers1, "KeyError", "t2_filter") /\ df' = df
       ELSE IF \E r \in RowSet(df) : ~Parses(r.Date_reported)
       THEN Raise(Handlers1, "ValueError", "t2_filter") /\ df' = df
       ELSE pc' = "t1_dropna" /\ out' = out /\ df' = ConvertDates(df)
    /\ UNCHANGED <<env, dropped, column, results>>

\* lines 41-42: initial_len, df = df.dropna(subset=[...])
DropNaStep ==
    /\ pc = "t1_dropna"
    /\ IF ~(KeyCols \subseteq df.cols)
       THEN Raise(Handlers1, "KeyError", "t2_filter") /\ UNCHANGED <<df, dropped, column>>
       ELSE /\ pc' = "t1_fill" /\ out' = out
            /\ df' = DropNa(df)
            /\ dropped' = LenDf(df) - LenDf(DropNa(df))
            /\ column' = 1
    /\ UNCHANGED <<env, results>>

\* lines 43-46: one turn of the loop over the four numeric columns
Fill ==
    /\ pc = "t1_fill"
    /\ IF NumericCols[column] \in df.cols /\ ~methodOK
       THEN Raise(Handlers1, "TypeError", "t2_filter") /\ UNCHANGED <<df, column>>
       ELSE /\ df' = IF NumericCols[column] \in df.cols
                     THEN FillColumn(df, NumericCols[column]) ELSE df
            /\ out' = out
            /\ IF column = Len(NumericCols)
               THEN pc' = "t1_report" /\ column' = column
               ELSE pc' = "t1_fill" /\ column' = column + 1
    /\ UNCHANGED <<env, dropped, results>>

\* lines 47-51: the report of the cleaning
Report ==
    /\ pc = "t1_report"
    /\ out' = out \o (IF AnyNull(df) THEN <<"Dataset cleaned">>
                      ELSE <<"Dataset cleaned", "No remaining missing values">>)
    /\ pc' = "t2_filter"
    /\ UNCHANGED <<env, df, dropped, column, results>>

-----------------------------------------------------------------------------
(* Tasks 2 and 3: what pandas computes *)

\* one cell of df['Date_reported'] >= '2025-01-01': a timestamp is compared
\* with the parsed cutoff, a string with the cutoff's text, a missing cell fails
OnOrAfterCutoff(cell) ==
    CASE cell.kind = "ts"  -> cell.t >= DateNumber(Chars(Cutoff))
      [] cell.kind = "str" -> LexGE(Chars(cell.s), Chars(Cutoff))
      [] OTHER             -> FALSE

InWindow(r) == OnOrAfterCutoff(r.Date_reported)

\* df[df['Date_reported'] >= '2025-01-01']
Window(d) ==
    [d EXCEPT !.rows = SelectSeq(d.rows, InWindow),
              !.tail.n = IF InWindow(d.tail.row) THEN @ ELSE 0]

\* the sum of column c over `rows`, NaN skipped
RECURSIVE SumRows(_, _)
SumRows(rows, c) ==
    IF rows = <<>> THEN 0
    ELSE (IF Head(rows)[c] # NaN THEN Head(rows)[c][1] ELSE 0) + SumRows(Tail(rows), c)

\* the number of rows of `rows` that have a value in column c
CountRows(rows, c) == Cardinality({i \in DOMAIN rows : rows[i][c] # NaN})

\* the sum of column c over the rows of d, NaN skipped
ColSum(d, c) ==
    SumRows(d.rows, c)
    + (IF d.tail.row[c] # NaN THEN d.tail.n * d.tail.row[c][1] ELSE 0)

\* the number of rows of d that have a value in column c
ColCount(d, c) ==
    CountRows(d.rows, c) + (IF d.tail.row[c] # NaN THEN d.tail.n ELSE 0)

\* the rows of d that groupby(by) puts in the group of key g
Group(d, by, g) ==
    [d EXCEPT !.rows = SelectSeq(d.rows, LAMBDA r : r[by] = g),
              !.tail.n = IF d.tail.row[by] = g THEN @ ELSE 0]

\* the binary places of a double after its leading bit
MantissaBits == 52

\* the remainder of the long division r / b after n more binary places
RECURSIVE Remainder(_, _, _)
Remainder(r, b, n) == IF n = 0 THEN r ELSE Remainder((2 * r) % b, b, n - 1)

\* a doubled until it is at least b (a > 0)
RECURSIVE ScaleUp(_, _)
ScaleUp(a, b) == IF a < b THEN ScaleUp(2 * a, b) ELSE a

\* b doubled until a is less than twice b
RECURSIVE ScaleDown(_, _)
ScaleDown(a, b) == IF a >= 2 * b THEN ScaleDown(a, 2 * b) ELSE b

\* round(2) of a mean that is m/200 for an odd m > 0, a decimal tie: the
\* side of m/2 on which the double (mean * 100) falls, -1, 0 or 1.  The mean
\* is the double nearest m/200 and the product is rounded to a double again:
\* it is m/2 itself unless the error of the mean, times 100, exceeds half a
\* last place of m/2.
TieSide(m) ==
    LET a    == ScaleUp(m, 200)
        b    == ScaleDown(a, 200)
        \* b <= a < 2b: the mean's 53 bits are those of floor(a * 2^52 / b),
        \* rho is what the division leaves
        rho  == Remainder(a - b, b, MantissaBits)
        odd  == 2 * Remainder(a - b, b, MantissaBits - 1) >= b
        up   == 2 * rho > b \/ (2 * rho = b /\ odd)
        \* the error of the stored mean, in last places of it, times b
        err  == IF rho = 0 THEN 0 ELSE IF up THEN b - rho ELSE 0 - rho
        \* a last place of m/2 is 2^6 or 2^7 last places of the mean times 100
        half == IF 25 * a < 32 * b THEN 32 ELSE 64
    IN  IF 100 * err > half * b THEN 1
        ELSE IF 0 - 100 * err > half * b THEN -1
        ELSE 0

\* sum / count rounded to two decimals as numpy rounds a double, in
\* hundredths: rint(mean * 100), rint rounding half to even.  Away from a
\* decimal tie the double's error cannot change the side (counts and sums of
\* the size of this table); at a tie it decides.
Round2(sum, count) ==
    LET s == IF sum < 0 THEN 0 - sum ELSE sum
        n == 100 * s
        q == n \div count
        r == n - q * count
        side == IF 2 * r < count THEN -1
                ELSE IF 2 * r > count THEN 1
                ELSE TieSide(2 * q + 1)
        mag == IF side < 0 THEN q
               ELSE IF side > 0 THEN q + 1
               ELSE IF q % 2 = 0 THEN q ELSE q + 1
    IN  IF sum < 0 THEN 0 - mag ELSE mag

\* the rounded mean of a group: NaN when no row of it has a value
MeanOf(sum, count) == IF count = 0 THEN NaN ELSE <<Round2(sum, count)>>

\* the greatest common divisor of a >= 0 and b >= 0
RECURSIVE Gcd(_, _)
Gcd(a, b) == IF b = 0 THEN a ELSE Gcd(b, a % b)

\* mean() of a group as it is, not rounded: the quotient sum / count in
\* lowest terms, NaN when no row of the group has a value
Mean(sum, count) ==
    IF count = 0 THEN NaN
    ELSE LET g == Gcd(IF sum < 0 THEN 0 - sum ELSE sum, count)
         IN  <<[num |-> sum \div g, den |-> count \div g]>>

\* describe(): the count and the sum of each of the four columns
Describe(d) ==
    [c \in Range(DescribeCols) |-> [count |-> ColCount(d, c), sum |-> ColSum(d, c)]]

\* the keys of groupby(by, dropna=False)
KeysKeepMissing(d, by) == {r[by] : r \in RowSet(d)}

\* the keys of groupby(by): the values of the column, a missing one is no key
Keys(d, by) == {r[by] : r \in RowSet(d)} \ {Missing}

\* groupby('WHO_region')['New_cases'].agg(['mean', 'sum']).round(2)
GroupMeans(d) ==
    [g \in Keys(d, "WHO_region") |->
        LET rows == Group(d, "WHO_region", g)
        IN  [mean |-> MeanOf(ColSum(rows, "New_cases"), ColCount(rows, "New_cases")),
             sum  |-> ColSum(rows, "New_cases")]]

\* the rows head(10) keeps
HeadSize == 10

\* a sorts before b in sort_values(ascending=False): NaN sorts last
Before(a, b) ==
    a # NaN /\ (b = NaN \/ a[1].num * b[1].den > b[1].num * a[1].den)

\* groupby('Country')['Cumulative_deaths'].mean()
CountryMeans(d) ==
    [g \in Keys(d, "Country") |->
        LET rows == Group(d, "Country", g)
        IN  Mean(ColSum(rows, "Cumulative_deaths"), ColCount(rows, "Cumulative_deaths"))]

\* sort_values(ascending=False).head(10) of `means`: the ten entries that
\* sort first, all of them when there are fewer.  Among equal means at the
\* cut the sort decides which are kept, so every such choice is a result.
CountryDeaths(d) ==
    LET means == CountryMeans(d)
        all   == DOMAIN means
        size  == IF Cardinality(all) < HeadSize THEN Cardinality(all) ELSE HeadSize
    IN  {[g \in top |-> means[g]] :
            top \in {t \in SUBSET all :
                        /\ Cardinality(t) = size
                        /\ \A g \in t, h \in all \ t : ~Before(means[h], means[g])}}

\* the four image files, in the order the script writes them
ChartFiles == <<"global_cases_line.png", "region_cases_bar.png",
                "deaths_histogram.png", "cases_deaths_scatter.png">>

\* sample(1000) without replacement needs that many rows
CanSample(d) == LenDf(d) >= SampleSize

-----------------------------------------------------------------------------
(* Task 2: the statements *)

t1state == <<df, dropped, column>>

\* line 63: recent_df = df[df['Date_reported'] >= '2025-01-01']
Filter2 ==
    /\ pc = "t2_filter"
    /\ IF ~IsBound(df)
       THEN Raise(Handlers2, "NameError", "t3_filter") /\ recent_df' = recent_df
       ELSE IF "Date_reported" \notin df.cols
       THEN Raise(Handlers2, "KeyError", "t3_filter") /\ recent_df' = recent_df
       ELSE pc' = "t2_describe" /\ out' = out /\ recent_df' = Window(df)
    /\ UNCHANGED <<env, t1state, summary, group_means, country_deaths, viz_df, files>>

\* lines 64-65: the summary statistics; the header of line 64 is printed
\* before line 65 selects the four columns
DescribeStep ==
    /\ pc = "t2_describe"
    /\ IF ~(Range(DescribeCols) \subseteq recent_df.cols)
       THEN /\ RaiseAfter(<<"Summary Statistics">>, Handlers2, "KeyError", "t3_filter")
            /\ summary' = summary
       ELSE /\ pc' = "t2_region"
            /\ out' = Append(out, "Summary Statistics")
            /\ summary' = <<Describe(recent_df)>>
    /\ UNCHANGED <<env, t1state, recent_df, group_means, country_deaths, viz_df, files>>

\* lines 68-70: mean and sum of new cases by region; the header of line 68 is
\* printed before line 69 groups the rows
RegionStep ==
    /\ pc = "t2_region"
    /\ IF ~({"WHO_region", "New_cases"} \subseteq recent_df.cols)
       THEN /\ RaiseAfter(<<"Mean New Cases by WHO Region">>, Handlers2, "KeyError", "t3_filter")
            /\ group_means' = group_means
       ELSE /\ pc' = "t2_country"
            /\ out' = Append(out, "Mean New Cases by WHO Region")
            /\ group_means' = <<GroupMeans(recent_df)>>
    /\ UNCHANGED <<env, t1state, recent_df, summary, country_deaths, viz_df, files>>

\* lines 73-75: the ten countries of highest mean cumulative deaths; the
\* header of line 73 is printed before line 74 groups the rows, and line 75
\* rounds only what it prints
CountryStep ==
    /\ pc = "t2_country"
    /\ IF ~({"Country", "Cumulative_deaths"} \subseteq recent_df.cols)
       THEN /\ RaiseAfter(<<"Top 10 Countries">>, Handlers2, "KeyError", "t3_filter")
            /\ country_deaths' = country_deaths
       ELSE /\ pc' = "t2_findings"
            /\ out' = Append(out, "Top 10 Countries")
            /\ \E top \in CountryDeaths(recent_df) : country_deaths' = <<top>>
    /\ UNCHANGED <<env, t1state, recent_df, summary, group_means, viz_df, files>>

\* lines 78-83: the findings
Findings ==
    /\ pc = "t2_findings"
    /\ out' = Append(out, "Findings from Analysis")
    /\ pc' = "t3_filter"
    /\ UNCHANGED <<env, t1state, results>>

-----------------------------------------------------------------------------
(* Task 3: the statements *)

analysis == <<recent_df, summary, group_means, country_deaths>>

\* a handler per chart: control resumes at the next chart
ResumePerChart ==
    CASE pc = "t3_line" -> "t3_bar"
      [] pc = "t3_bar"  -> "t3_hist"
      [] pc = "t3_hist" -> "t3_scatter"
      [] OTHER          -> "final"

\* where control resumes after the one handler of Task 3 (line 149)
AfterTask3 == "final"

\* line 91: viz_df = df[df['Date_reported'] >= '2025-01-01'].copy()
Filter3 ==
    /\ pc = "t3_filter"
    /\ IF ~IsBound(df)
       THEN Raise(Handlers3, "NameError", AfterTask3) /\ viz_df' = viz_df
       ELSE IF "Date_reported" \notin df.cols
       THEN Raise(Handlers3, "KeyError", AfterTask3) /\ viz_df' = viz_df
       ELSE pc' = "t3_line" /\ out' = out /\ viz_df' = Window(df)
    /\ UNCHANGED <<env, t1state, analysis, files>>

\* plt.savefig(name) at the end of a chart's block
Save(i, next) ==
    /\ files' = Append(files, ChartFiles[i])
    /\ pc' = next
    /\ out' = out

\* lines 94-105: the line chart of the daily totals
LineChart ==
    /\ pc = "t3_line"
    /\ IF "New_cases" \notin viz_df.cols
       THEN Raise(Handlers3, "KeyError", AfterTask3) /\ files' = files
       ELSE Save(1, "t3_bar")
    /\ UNCHANGED <<env, t1state, analysis, viz_df>>

\* lines 108-118: the bar chart of the regional means.  Whether barplot
\* draws an empty chart or raises on no group at all depends on the seaborn
\* installed.
BarChart ==
    /\ pc = "t3_bar"
    /\ \E accepts \in (IF "WHO_region" \in viz_df.cols /\ Keys(viz_df, "WHO_region") = {}
                       THEN BOOLEAN ELSE {TRUE}) :
          IF "WHO_region" \notin viz_df.cols
          THEN Raise(Handlers3, "KeyError", AfterTask3) /\ files' = files
          ELSE IF ~accepts
          THEN Raise(Handlers3, "ValueError", AfterTask3) /\ files' = files
          ELSE Save(2, "t3_hist")
    /\ UNCHANGED <<env, t1state, analysis, viz_df>>

\* lines 121-130: the histogram of new deaths.  Whether hist skips missing
\* values or raises on them depends on the matplotlib and numpy installed.
Histogram ==
    /\ pc = "t3_hist"
    /\ \E accepts \in (IF "New_deaths" \in viz_df.cols
                          /\ \E r \in RowSet(viz_df) : r.New_deaths = NaN
                       THEN BOOLEAN ELSE {TRUE}) :
          IF "New_deaths" \notin viz_df.cols
          THEN Raise(Handlers3, "KeyError", AfterTask3) /\ files' = files
          ELSE IF ~accepts
          THEN Raise(Handlers3, "ValueError", AfterTask3) /\ files' = files
          ELSE Save(3, "t3_scatter")
    /\ UNCHANGED <<env, t1state, analysis, viz_df>>

\* lines 133-141: the scatter plot of a sample of 1000 rows
Scatter ==
    /\ pc = "t3_scatter"
    /\ IF ~CanSample(viz_df)
       THEN Raise(Handlers3, "ValueError", AfterTask3) /\ files' = files
       ELSE Save(4, "t3_manifest")
    /\ UNCHANGED <<env, t1state, analysis, viz_df>>

\* lines 143-147: the list of the files written
Manifest ==
    /\ pc = "t3_manifest"
    /\ out' = Append(out, "Visualizations saved as PNG files")
    /\ pc' = "final"
    /\ UNCHANGED <<env, t1state, results>>

\* lines 153-158: the closing observations
Final ==
    /\ pc = "final"
    /\ out' = Append(out, "Overall Project Observations")
    /\ pc' = "done"
    /\ UNCHANGED <<env, t1state, results>>

-----------------------------------------------------------------------------
(* The script *)

Init ==
    /\ pc = "t1_get"
    /\ net \in {"ok", "ConnectionError", "HTTPError"}
    /\ body \in (IF net = "ok" THEN Bodies ELSE {EmptyBody})
    /\ methodOK \in (IF net = "ok" /\ ~body.empty THEN BOOLEAN ELSE {TRUE})
    /\ df = Unbound
    /\ dropped = 0
    /\ column = 0
    /\ recent_df = Unbound
    /\ summary = <<>>
    /\ group_means = <<>>
    /\ country_deaths = <<>>
    /\ viz_df = Unbound
    /\ files = <<>>
    /\ out = <<>>

Next ==
    \/ Get \/ RaiseForStatus \/ Read \/ Preview \/ ToDatetimeStep \/ DropNaStep
    \/ Fill \/ Report
    \/ Filter2 \/ DescribeStep \/ RegionStep \/ CountryStep \/ Findings
    \/ Filter3 \/ LineChart \/ BarChart \/ Histogram \/ Scatter \/ Manifest
    \/ Final

Spec == Init /\ [][Next]_vars

\* the interpreter runs the next statement: the script never stalls between
\* statements
FairSpec == Spec /\ WF_vars(Next)

-----------------------------------------------------------------------------
(* Vocabulary of the properties *)

Printed(msg) == msg \in Range(out)

\* the cleaning block ran to its end (line 47 printed its report)
Cleaned == Printed("Dataset cleaned")

\* the columns the loop of line 43 names that the table has
PresentNumeric(d) == Range(NumericCols) \cap d.cols

\* a field of the CSV that holds no value
FieldMissing(s) == s \in NaValues

\* the rows of the input that have a date and a country code, in table order
KeptInput ==
    SelectSeq(body.rows,
              LAMBDA r : ~FieldMissing(r.Date_reported) /\ ~FieldMissing(r.Country_code))

\* what forward-fill then zero-fill is to leave at row i of a column
Expected(col, i) ==
    LET prior == {j \in 1..(i - 1) : col[j] # NaN}
    IN  IF col[i] # NaN THEN col[i]
        ELSE IF prior = {} THEN <<0>>
        ELSE col[CHOOSE j \in prior : \A k \in prior : k <= j]

\* the cell names a day on or after the cutoff
DayOnOrAfterCutoff(cell) ==
    \/ cell.kind = "ts" /\ cell.t >= 20250101
    \/ cell.kind = "str" /\ IsIsoDate(Chars(cell.s)) /\ DateNumber(Chars(cell.s)) >= 20250101

RECURSIVE SumOver(_, _)
SumOver(f, S) ==
    IF S = {} THEN 0
    ELSE LET x == CHOOSE y \in S : TRUE IN f[x] + SumOver(f, S \ {x})

Abs(x) == IF x < 0 THEN -x ELSE x

HasRegion(r) == r.WHO_region # Missing

\* the rows of d that have a WHO_region
RegionRows(d) ==
    [d EXCEPT !.rows = SelectSeq(d.rows, HasRegion),
              !.tail.n = IF HasRegion(d.tail.row) THEN @ ELSE 0]

\* the order in which the four image files are to appear
FixedOrder == <<"global_cases_line.png", "region_cases_bar.png",
                "deaths_histogram.png", "cases_deaths_scatter.png">>

\* something of Tasks 2 or 3 was computed from df
Analysed == summary # <<>> \/ group_means # <<>> \/ country_deaths # <<>> \/ files # <<>>

\* control has passed the first reference to df of Task 2 (line 63)
PastTask2Reference == pc \notin {"t1_get", "t1_status", "t2_filter"}

-----------------------------------------------------------------------------
(* The claims *)

\* C1: once the cleaning block has completed, no row of df lacks Date_reported
\* or Country_code, and none of the four numeric columns the table has holds a
\* missing value.
C1_NoMissingAfterCleaning ==
    Cleaned =>
        \A r \in RowSet(df) :
            /\ r.Date_reported.kind # "nan"
            /\ r.Country_code # Missing
            /\ \A c \in PresentNumeric(df) : r[c] # NaN

\* C1 witness: a cleaned table whose input had a row without a date, a row
\* without a country code and a kept row with no numeric value at all.
C1_Witness ==
    /\ Cleaned
    /\ \E i, j, k \in DOMAIN body.rows :
          body.rows[i] = K5 /\ body.rows[j] = K6 /\ body.rows[k] = K2
    /\ dropped = 2

\* C2: after cleaning, df holds exactly the input rows that have a date and a
\* country code, in table order, and each numeric cell is the input value when
\* there was one, else the value of the nearest preceding kept row that had
\* one, else 0.
C2_ForwardFill ==
    Cleaned =>
        /\ Len(df.rows) = Len(KeptInput)
        /\ \A c \in PresentNumeric(df) :
              /\ \A i \in DOMAIN df.rows :
                    df.rows[i][c] = Expected([j \in DOMAIN KeptInput |-> KeptInput[j][c]], i)
              /\ df.tail.n = body.bulk
              /\ df.tail.n > 0 => df.tail.row[c] = BulkRow[c]

\* C2 witness: a value, then a dropped row carrying another value, then a row
\* with no value: the last row takes the value of the first.
C2_Witness ==
    /\ Cleaned
    /\ body.rows = <<K1, K5, K2>>
    /\ Len(df.rows) = 2
    /\ df.rows[2].New_cases = <<2>>

\* C3: whatever fails in the three zones, no error escapes its zone and the
\* run reaches the closing observations.
C3_ReachesObservations ==
    /\ [](pc # "crashed")
    /\ <>(pc = "done" /\ Printed("Overall Project Observations"))

\* C3 witness: a run in which all three zones failed and the observations
\* were printed all the same.
C3_Witness ==
    /\ pc = "done"
    /\ Printed("Error: Failed to download dataset")
    /\ Printed("Error during analysis")
    /\ Printed("Error during visualization")
    /\ Printed("Overall Project Observations")

\* C4 (as stated): after a network or HTTP failure, the error the later zones
\* raise on the undefined df is caught by no handler.
C4_SecondaryErrorUnhandled ==
    (net # "ok" /\ PastTask2Reference) =>
        (pc = "crashed" /\ ~Printed("Error during analysis"))

\* C4 (amended): after a network or HTTP failure df stays unbound; the
\* NameError each later zone raises is caught by that zone's own handler, which
\* prints its message; nothing is computed and the script goes on.
C4_SecondaryErrorCaught ==
    (net # "ok" /\ PastTask2Reference) =>
        /\ ~IsBound(df)
        /\ pc # "crashed"
        /\ Printed("Error during analysis")
        /\ ~Analysed
        /\ pc \in {"final", "done"} => Printed("Error during visualization")
        /\ pc = "done" => Printed("Overall Project Observations")

\* C4 witness: an HTTP error, both later zones failed on df, the run ended.
C4_Witness ==
    /\ net = "HTTPError"
    /\ pc = "done"
    /\ ~IsBound(df)
    /\ Printed("Error during analysis")
    /\ Printed("Error during visualization")

\* C5 (as stated): a run of Task 3 on a cleaned table writes all four image
\* files, however few rows the window holds.  Stated here for the tables that
\* have every column and a row with a WHO_region in the window.
C5_FourFilesAlways ==
    (/\ pc = "done"
     /\ Cleaned
     /\ df.cols = AllCols
     /\ Keys(viz_df, "WHO_region") # {})
    => files = FixedOrder

\* C6 (as stated): after cleaning every numeric value is present and not
\* negative.
C6_NonNegative ==
    Cleaned =>
        \A r \in RowSet(df) : \A c \in PresentNumeric(df) : r[c] # NaN /\ r[c][1] >= 0

\* C6 (amended): after cleaning every numeric value is present, and is 0 or a
\* value the input holds in that column; negative input values stay negative.
C6_PresentAndFromInput ==
    Cleaned =>
        \A r \in RowSet(df) : \A c \in PresentNumeric(df) :
            /\ r[c] # NaN
            /\ \/ r[c] = <<0>>
               \/ \E i \in DOMAIN KeptInput : KeptInput[i][c] = r[c]
               \/ body.bulk > 0 /\ BulkRow[c] = r[c]

\* C6 witness: a cleaned table that holds a negative number of new cases.
C6_Witness ==
    /\ Cleaned
    /\ \E i \in DOMAIN df.rows : df.rows[i].New_cases = <<-1>>

\* C7 (as stated): on a cleaned table the per-region sums add up to the sum of
\* New_cases over all rows of the window.
C7_RegionSumsCoverWindow ==
    (Cleaned /\ df.cols = AllCols /\ group_means # <<>>) =>
        SumOver([g \in DOMAIN group_means[1] |-> group_means[1][g].sum],
                DOMAIN group_means[1])
        = ColSum(recent_df, "New_cases")

\* C7 (amended): on a cleaned table the per-region sums add up to the sum of
\* New_cases over the rows of the window that have a WHO_region, and each
\* reported mean times the region's row count is within half a hundredth per
\* row of the region's sum.
C7_RegionSumsCoverRegionRows ==
    (Cleaned /\ group_means # <<>>) =>
        LET gm == group_means[1]
        IN  /\ DOMAIN gm = {r.WHO_region : r \in {x \in RowSet(recent_df) : HasRegion(x)}}
            /\ SumOver([g \in DOMAIN gm |-> gm[g].sum], DOMAIN gm)
               = ColSum(RegionRows(recent_df), "New_cases")
            /\ \A g \in DOMAIN gm :
                  LET count == Cardinality({i \in DOMAIN recent_df.rows :
                                               recent_df.rows[i].WHO_region = g})
                               + (IF recent_df.tail.row.WHO_region = g
                                  THEN recent_df.tail.n ELSE 0)
                  IN  /\ gm[g].mean # NaN
                      /\ 2 * Abs(gm[g].mean[1] * count - 100 * gm[g].sum) <= count

\* C7 witness: a cleaned window with two regions and a row of no region whose
\* new cases are not zero.
C7_Witness ==
    /\ Cleaned
    /\ group_means # <<>>
    /\ Cardinality(DOMAIN group_means[1]) = 2
    /\ \E r \in RowSet(recent_df) : ~HasRegion(r) /\ r.New_cases # <<0>>

\* C8: every row of the analysis window and of the chart window names a day
\* on or after the cutoff, every row of df on or after the cutoff is in the
\* window, and the two windows hold the same rows.  Stated here for the
\* tables that have every column, under a pandas that accepts method=.
C8_WindowIsCutoffFilter ==
    (methodOK /\ body.cols = AllCols) =>
        /\ IsBound(recent_df) =>
              /\ \A r \in RowSet(recent_df) : DayOnOrAfterCutoff(r.Date_reported)
              /\ \A r \in RowSet(df) : DayOnOrAfterCutoff(r.Date_reported) => r \in RowSet(recent_df)
        /\ IsBound(viz_df) =>
              /\ \A r \in RowSet(viz_df) : DayOnOrAfterCutoff(r.Date_reported)
              /\ \A r \in RowSet(df) : DayOnOrAfterCutoff(r.Date_reported) => r \in RowSet(viz_df)
        /\ (IsBound(recent_df) /\ IsBound(viz_df)) =>
              (recent_df.rows = viz_df.rows /\ recent_df.tail = viz_df.tail)

\* C9: the files written are a prefix of the fixed order, no chart is written
\* after a failure of Task 3, and the manifest is printed only when all four
\* files were written.
C9_FilesArePrefix ==
    /\ \E k \in 0..Len(FixedOrder) : files = SubSeq(FixedOrder, 1, k)
    /\ Printed("Error during visualization") => pc \in {"final", "done"}
    /\ Printed("Visualizations saved as PNG files") => files = FixedOrder

\* C9 witness: the first chart was written, the second failed, and the run
\* ended with that one file and no manifest.
C9_Witness ==
    /\ pc = "done"
    /\ files = <<"global_cases_line.png">>
    /\ Printed("Error during visualization")
    /\ ~Printed("Visualizations saved as PNG files")

\* C10: statistics and charts are computed only from a df whose cleaning ran
\* to completion.  Stated here for the runs in which every date of the table
\* parses, pandas accepts method= and the window is not empty.
C10_OnlyCleanedDataAnalysed ==
    (/\ methodOK
     /\ Analysed
     /\ LenDf(recent_df) > 0
     /\ \A r \in RowSet(df) : Parses(r.Date_reported) \/ r.Date_reported.kind = "ts")
    => Cleaned

====
